---------------------------- MODULE Spec2Model ----------------------------
(***************************************************************************)
(* Model of replibyte/src/telemetry.rs: the TelemetryClient (capture,      *)
(* capture_batch, capture_command), the wire form InnerEvent and its JSON  *)
(* serialization.                                                          *)
(*                                                                         *)
(* Strings are sequences of atoms.  An atom is a TLA+ string standing for  *)
(* a run of ordinary characters, or one of the two characters JSON must    *)
(* escape (QUOTE, BACKSLASH).  Option<T> is a sequence of length <= 1.     *)
(***************************************************************************)
EXTENDS Integers, Sequences, FiniteSets, TLC

VARIABLES
    client,      \* TelemetryClient: options (api_endpoint, api_key) and the HttpClient's timeout
    serializer,  \* "total": serde_json::to_string has no Err path; "partial": its Result is open
    pc,          \* "idle" | "batch" (inside capture_batch's loop) | "returned" | "panicked"
    call,        \* the operation in progress / last finished, with its arguments
    queue,       \* capture_batch: the events the for loop has not reached yet
    http,        \* the HTTP requests attempted by the current call, in order
    result,      \* the Result<(), Error> of the current call
    built,       \* capture_command: Option of the Event it built
    fault        \* Option of the failure that ended the last capture ("connect", "timeout", "serialize")

vars == <<client, serializer, pc, call, queue, http, result, built, fault>>

-----------------------------------------------------------------------------
(* Bounds of the model *)

MaxBatch == 3
MaxColumns == 3

-----------------------------------------------------------------------------
(* Constants of the program *)

TELEMETRY_TOKEN == <<"phc_3I35toj7Gbkiz5YZdxt2h5KOWBEfRx17qLCZ2OWj5Bt">>
API_ENDPOINT == <<"https://app.posthog.com/capture/">>
TIMEOUT == 3000

-----------------------------------------------------------------------------
(* Strings, options, results *)

QUOTE == "\""
BACKSLASH == "\\"

None == <<>>
Some(x) == <<x>>

Pending == [tag |-> "Pending", kind |-> "", msg |-> <<>>]
Ok == [tag |-> "Ok", kind |-> "", msg |-> <<>>]
\* Error::new(ErrorKind::Other, msg)
Error_new(kind, msg) == [tag |-> "Err", kind |-> kind, msg |-> msg]

Perms(S) == {f \in [1..Cardinality(S) -> S] : \A i, j \in DOMAIN f : f[i] = f[j] => i = j}

\* args.join(" ")
RECURSIVE join(_, _)
join(strs, sep) ==
    IF Len(strs) = 0 THEN <<>>
    ELSE IF Len(strs) = 1 THEN strs[1]
    ELSE strs[1] \o sep \o join(Tail(strs), sep)

-----------------------------------------------------------------------------
(* serde_json: #[derive(Serialize)] on InnerEvent and Properties *)

\* A JSON string body: QUOTE and BACKSLASH are escaped with a BACKSLASH.
RECURSIVE escape(_)
escape(s) ==
    IF s = <<>> THEN <<>>
    ELSE IF Head(s) \in {QUOTE, BACKSLASH} THEN <<BACKSLASH, Head(s)>> \o escape(Tail(s))
    ELSE <<Head(s)>> \o escape(Tail(s))

json_string(s) == <<QUOTE>> \o escape(s) \o <<QUOTE>>

\* NaiveDateTime's Serialize writes its Debug form as a JSON string.
json_timestamp(t) == IF t = None THEN <<"null">> ELSE json_string(<<ToString(t[1])>>)

\* A JSON object is a record of its members; the members of the props map, whose
\* order in the text is the HashMap's, are a set of (key, value) pairs.
to_string(inner_event) ==
    [api_key    |-> json_string(inner_event.api_key),
     event      |-> json_string(inner_event.event),
     properties |-> [distinct_id |-> json_string(inner_event.properties.distinct_id),
                     props |-> {<<json_string(k), json_string(inner_event.properties.props[k])>> :
                                   k \in DOMAIN inner_event.properties.props}],
     timestamp  |-> json_timestamp(inner_event.timestamp)]

\* Reading a JSON string: after the opening QUOTE, up to the first QUOTE that is
\* not escaped.
RECURSIVE read_string(_)
read_string(s) ==
    IF s = <<>> \/ Head(s) = QUOTE THEN <<>>
    ELSE IF Head(s) = BACKSLASH /\ Len(s) >= 2 THEN <<s[2]>> \o read_string(Tail(Tail(s)))
    ELSE <<Head(s)>> \o read_string(Tail(s))

parse_string(j) == IF j # <<>> /\ Head(j) = QUOTE THEN read_string(Tail(j)) ELSE <<>>

\* NaiveDateTime values of the model
Times == {0, 1}

parse_timestamp(j) ==
    IF j = <<"null">> THEN None
    ELSE Some(CHOOSE t \in Times : <<ToString(t)>> = parse_string(j))

from_str(body) ==
    [api_key    |-> parse_string(body.api_key),
     event      |-> parse_string(body.event),
     properties |-> [distinct_id |-> parse_string(body.properties.distinct_id),
                     props |-> [k \in {parse_string(m[1]) : m \in body.properties.props} |->
                                  parse_string((CHOOSE m \in body.properties.props :
                                                   parse_string(m[1]) = k)[2])]],
     timestamp  |-> parse_timestamp(body.timestamp)]

-----------------------------------------------------------------------------
(* The transport: TelemetryClient::new, InnerEvent::new, capture, capture_batch *)

ClientOptions_from(api_key) == [api_endpoint |-> API_ENDPOINT, api_key |-> api_key]

TelemetryClient_new(options) == [options |-> options, timeout |-> TIMEOUT]

\* InnerEvent::new losing the timestamp
InnerEvent_new_no_timestamp(event, api_key) ==
    [api_key    |-> api_key,
     event      |-> event.event,
     properties |-> event.properties,
     timestamp  |-> None]

InnerEvent_new(event, api_key) ==
    [api_key    |-> api_key,
     event      |-> event.event,
     properties |-> event.properties,
     timestamp  |-> event.timestamp]

\* What the network does with one request: whether the connection is established,
\* how long the response takes (ms), and the status the collector answers with.
Statuses == {200, 500}
Networks == {[connect |-> FALSE, latency |-> TIMEOUT - 1, status |-> 200]}
                \cup [connect : {TRUE}, latency : {TIMEOUT - 1}, status : Statuses]
                \cup [connect : {TRUE}, latency : {TIMEOUT + 1}, status : {200}]
\* ser: whether serde_json::to_string answers Ok
Envs == {[ser |-> b, connect |-> n.connect, latency |-> n.latency, status |-> n.status] :
            b \in IF serializer = "partial" THEN BOOLEAN ELSE {TRUE}, n \in Networks}

Responded(status) == [responded |-> TRUE, status |-> status, error |-> ""]
Failed(error) == [responded |-> FALSE, status |-> 0, error |-> error]

\* send followed by error_for_status(): a status >= 400 becomes an Err
send_error_for_status(timeout, env) ==
    IF ~env.connect THEN Failed("connect")
    ELSE IF env.latency > timeout THEN Failed("timeout")
    ELSE IF env.status >= 400 THEN Failed("status")
    ELSE Responded(env.status)

\* RequestBuilder::send on a client built with .timeout(timeout): one attempt.  It
\* is Err when the connection fails or no response arrives within the timeout,
\* and Ok(response) for every status.
send(timeout, env) ==
    IF ~env.connect THEN Failed("connect")
    ELSE IF env.latency > timeout THEN Failed("timeout")
    ELSE Responded(env.status)

\* e.to_string() of a reqwest::Error
error_to_string(error) ==
    IF error = "connect" THEN <<"error trying to connect">>
    ELSE IF error = "timeout" THEN <<"operation timed out">>
    ELSE <<"builder error">>

\* One request attempt: what was posted, what the network did with it (network)
\* and what send() answered (outcome).
Request(self, body, env, outcome) ==
    [url          |-> self.options.api_endpoint,
     content_type |-> "application/json",
     body         |-> body,
     network      |-> [connect |-> env.connect, latency |-> env.latency, status |-> env.status],
     outcome      |-> outcome]

\* capture sending a second time when the first attempt fails
capture_retry(self, event, env) ==
    LET body == to_string(InnerEvent_new(event, self.options.api_key))
        outcome == send(self.timeout, env)
        req == Request(self, body, env, outcome)
    IN  IF ~env.ser
        THEN [panicked |-> TRUE, requests |-> <<>>, result |-> Pending,
              fault |-> Some("serialize")]
        ELSE IF outcome.responded
        THEN [panicked |-> FALSE, requests |-> <<req>>, result |-> Ok, fault |-> None]
        ELSE [panicked |-> FALSE, requests |-> <<req, req>>,
              result |-> Error_new("Other", error_to_string(outcome.error)),
              fault |-> Some(outcome.error)]

\* capture with .send().unwrap(): a transport failure panics
capture_unwrap(self, event, env) ==
    LET body == to_string(InnerEvent_new(event, self.options.api_key))
        outcome == send(self.timeout, env)
        req == Request(self, body, env, outcome)
    IN  IF ~env.ser
        THEN [panicked |-> TRUE, requests |-> <<>>, result |-> Pending,
              fault |-> Some("serialize")]
        ELSE IF outcome.responded
        THEN [panicked |-> FALSE, requests |-> <<req>>, result |-> Ok, fault |-> None]
        ELSE [panicked |-> TRUE, requests |-> <<req>>, result |-> Pending,
              fault |-> Some(outcome.error)]

\* TelemetryClient::capture.  The value is what the call did: the requests it
\* attempted, whether it panicked (expect on the serializer's Result), the Result
\* it returned, and the failure behind it.
capture(self, event, env) ==
    LET inner_event == InnerEvent_new(event, self.options.api_key)
    IN  IF ~env.ser
        THEN [panicked |-> TRUE, requests |-> <<>>, result |-> Pending,
              fault |-> Some("serialize")]
        ELSE LET outcome == send(self.timeout, env)
                 req == Request(self, to_string(inner_event), env, outcome)
             IN  IF outcome.responded
                 THEN [panicked |-> FALSE, requests |-> <<req>>, result |-> Ok,
                       fault |-> None]
                 ELSE [panicked |-> FALSE, requests |-> <<req>>,
                       result |-> Error_new("Other", error_to_string(outcome.error)),
                       fault |-> Some(outcome.error)]

-----------------------------------------------------------------------------
(* The command-to-event mapper: capture_command *)

\* HashMap::insert
insert(map, k, v) == [x \in DOMAIN map \cup {k} |-> IF x = k THEN v ELSE map[x]]

\* bool::to_string
bool_to_string(b) == IF b THEN <<"true">> ELSE <<"false">>

\* x.connection_uri(): Ok(variant) or Err(error)
UriOk(variant) == [ok |-> TRUE, variant |-> variant, error |-> Pending]
UriErr(error) == [ok |-> FALSE, variant |-> "", error |-> error]

database(uri) ==
    CASE uri.variant = "Postgres" -> <<"postgresql">>
      [] uri.variant = "Mysql"    -> <<"mysql">>
      [] uri.variant = "MongoDB"  -> <<"mongodb">>

\* compression.unwrap_or(false)
compression_used_default_false(x) ==
    bool_to_string(IF x.compression = None THEN FALSE ELSE x.compression[1])

compression_used(x) ==
    bool_to_string(IF x.compression = None THEN TRUE ELSE x.compression[1])

encryption_used(x) == bool_to_string(x.encryption_key # None)

skip_tables_used(x) == bool_to_string(x.skip # None)

subset_used(x) == bool_to_string(x.database_subset # None)

TransformerTypeConfigs ==
    {"Random", "RandomDate", "FirstName", "Email", "KeepFirstChar", "PhoneNumber",
     "CreditCard", "Redacted", "Transient", "CustomWasm"}

transformer_tag(transformer) ==
    CASE transformer = "Random"        -> <<"random">>
      [] transformer = "RandomDate"    -> <<"random-date">>
      [] transformer = "FirstName"     -> <<"first-name">>
      [] transformer = "Email"         -> <<"email">>
      [] transformer = "KeepFirstChar" -> <<"keep-first-char">>
      [] transformer = "PhoneNumber"   -> <<"phone-number">>
      [] transformer = "CreditCard"    -> <<"credit-card">>
      [] transformer = "Redacted"      -> <<"redacted">>
      [] transformer = "Transient"     -> <<"transient">>
      [] transformer = "CustomWasm"    -> <<"custom-wasm">>

\* the HashSet filled by the two nested loops over transformers and their columns
transformers(x) ==
    UNION {{transformer_tag(x.transformers[t].columns[c].transformer) :
               c \in DOMAIN x.transformers[t].columns} : t \in DOMAIN x.transformers}

\* format!("transformer_{}", idx)
transformer_key(idx) == <<"transformer_", ToString(idx)>>

\* the indices counted from 1
RECURSIVE transformer_props_from_one(_, _, _)
transformer_props_from_one(props, order, n) ==
    IF n = 0 THEN props
    ELSE insert(transformer_props_from_one(props, order, n - 1), transformer_key(n), order[n])

\* for (idx, transformer_name) in transformers.iter().enumerate(): order is the
\* order in which the set is iterated, order[idx + 1] the element enumerate
\* numbers idx.
RECURSIVE transformer_props(_, _, _)
transformer_props(props, order, n) ==
    IF n = 0 THEN props
    ELSE insert(transformer_props(props, order, n - 1), transformer_key(n - 1), order[n])

\* the Some(x) arm, after connection_uri() has succeeded
source_props(props, x, order) ==
    LET p1 == insert(props, <<"database">>, database(x.connection_uri))
        p2 == insert(p1, <<"compression_used">>, compression_used(x))
        p3 == insert(p2, <<"encryption_used">>, encryption_used(x))
        p4 == insert(p3, <<"skip_tables_used">>, skip_tables_used(x))
        p5 == insert(p4, <<"subset_used">>, subset_used(x))
    IN  transformer_props(p5, order, Len(order))

event_name(sub_command) ==
    CASE sub_command = <<"Backup", "List">>      -> <<"backup-list">>
      [] sub_command = <<"Backup", "Run">>       -> <<"backup-run">>
      [] sub_command = <<"Transformer", "List">> -> <<"transformer-list">>
      [] sub_command = <<"Restore", "Local">>    -> <<"restore-local">>
      [] sub_command = <<"Restore", "Remote">>   -> <<"restore-remote">>

\* machine_uid::get().unwrap_or_default()
distinct_id_empty(machine_uid) == IF machine_uid.ok THEN machine_uid.id ELSE <<>>

\* machine_uid::get().unwrap_or("unknown".to_string())
distinct_id(machine_uid) == IF machine_uid.ok THEN machine_uid.id ELSE <<"unknown">>

\* a "database" property of "unknown" when there is no source
command_props_default_database(config, args, order) ==
    LET props0 == insert(<<>>, <<"args">>, join(args, <<" ">>))
    IN  IF config.source = None
        THEN [ok |-> TRUE, props |-> insert(props0, <<"database">>, <<"unknown">>),
              error |-> Pending]
        ELSE IF ~config.source[1].connection_uri.ok
        THEN [ok |-> FALSE, props |-> <<>>, error |-> config.source[1].connection_uri.error]
        ELSE [ok |-> TRUE, props |-> source_props(props0, config.source[1], order),
              error |-> Pending]

\* if let Ok(uri) = x.connection_uri(): a failing connection_uri() is skipped
command_props_skip_uri_error(config, args, order) ==
    LET props0 == insert(<<>>, <<"args">>, join(args, <<" ">>))
    IN  IF config.source = None \/ ~config.source[1].connection_uri.ok
        THEN [ok |-> TRUE, props |-> props0, error |-> Pending]
        ELSE [ok |-> TRUE, props |-> source_props(props0, config.source[1], order),
              error |-> Pending]

\* capture_command, lines 75-131: the property map, or the error connection_uri()?
\* returns early with.  order is the order in which the transformers set is iterated.
command_props(config, args, order) ==
    LET props0 == insert(<<>>, <<"args">>, join(args, <<" ">>))
    IN  IF config.source = None THEN [ok |-> TRUE, props |-> props0, error |-> Pending]
        ELSE IF ~config.source[1].connection_uri.ok
        THEN [ok |-> FALSE, props |-> <<>>, error |-> config.source[1].connection_uri.error]
        ELSE [ok |-> TRUE, props |-> source_props(props0, config.source[1], order),
              error |-> Pending]

\* TelemetryClient::capture_command.  machine_uid is what machine_uid::get()
\* answers, now is Utc::now().  execution_time_in_millis is never read by the
\* code and is left out.
capture_command(self, config, sub_command, args, machine_uid, order, now, env) ==
    LET built_props == command_props(config, args, order)
    IN  IF ~built_props.ok
        THEN [panicked |-> FALSE, requests |-> <<>>, result |-> built_props.error,
              fault |-> None, event |-> None, machine_uid |-> None]
        ELSE LET event == [event      |-> event_name(sub_command),
                           properties |-> [distinct_id |-> distinct_id(machine_uid),
                                           props       |-> built_props.props],
                           timestamp  |-> Some(now)]
                 out == capture(self, event, env)
             IN  [panicked |-> out.panicked, requests |-> out.requests,
                  result |-> out.result, fault |-> out.fault,
                  event |-> Some(event), machine_uid |-> Some(machine_uid)]

-----------------------------------------------------------------------------
(* Inputs *)

ApiKeys == {TELEMETRY_TOKEN, <<"k", QUOTE>>}

PropMaps == {<<>>} \cup {[k \in {key} |-> v] : key \in {<<"k">>, <<QUOTE>>}, v \in {<<"v">>, <<BACKSLASH, QUOTE>>}}
                  \cup {[k \in {<<"k">>, <<QUOTE>>} |-> IF k = <<"k">> THEN <<"v", BACKSLASH>> ELSE <<>>]}

Events == [event      : {<<"signup">>, <<QUOTE, "x">>},
           properties : [distinct_id : {<<"id">>, <<"i", BACKSLASH>>}, props : PropMaps],
           timestamp  : {None} \cup {Some(t) : t \in Times}]

\* The events capture_batch is called with: three different events A, B, C
EventA == [event |-> <<"A">>, properties |-> [distinct_id |-> <<"id">>, props |-> <<>>],
           timestamp |-> None]
EventB == [EventA EXCEPT !.event = <<"B">>]
EventC == [EventA EXCEPT !.event = <<"C", QUOTE>>]
BatchEvents == {EventA, EventB, EventC}
Batches == UNION {[1..n -> BatchEvents] : n \in 0..MaxBatch}

SubCommands == {<<"Backup", "List">>, <<"Backup", "Run">>, <<"Transformer", "List">>,
                <<"Restore", "Local">>, <<"Restore", "Remote">>}

ArgLists == {<<>>, <<<<"backup">>>>, <<<<"backup">>, <<"run">>>>}

MachineUids == {[ok |-> TRUE, id |-> <<"machine-1">>], [ok |-> FALSE, id |-> <<>>]}

ConnectionUris ==
    {UriOk(v) : v \in {"Postgres", "Mysql", "MongoDB"}}
        \cup {UriErr(Error_new("Other", <<"missing <scheme> from connection URI">>))}

Column(transformer) == [name |-> <<"col">>, transformer |-> transformer]
Transformer(kinds) ==
    [database |-> <<"public">>, table |-> <<"t">>,
     columns |-> [c \in DOMAIN kinds |-> Column(kinds[c])]]

\* the transformer kinds configured on several columns at once
ColumnKinds == {"Email", "Random", "Redacted"}

\* one transformer with up to MaxColumns columns, or two with one column each, or
\* one column of any kind
TransformerLists ==
    {<<>>}
        \cup {<<Transformer(kinds)>> : kinds \in UNION {[1..n -> ColumnKinds] : n \in 0..MaxColumns}}
        \cup {<<Transformer(<<a>>), Transformer(<<b>>)>> : a, b \in ColumnKinds}
        \cup {<<Transformer(<<k>>)>> : k \in TransformerTypeConfigs}

BaseSource ==
    [connection_uri |-> UriOk("Postgres"), compression |-> None, encryption_key |-> None,
     skip |-> None, database_subset |-> None, transformers |-> <<>>]

\* every combination of connection_uri() result and options, with no transformer
OptionSources ==
    [connection_uri  : ConnectionUris,
     compression     : {None, Some(TRUE), Some(FALSE)},
     encryption_key  : {None, Some(<<"secret">>)},
     skip            : {None, Some(<<>>)},
     database_subset : {None, Some(<<"subset">>)},
     transformers    : {<<>>}]

\* every transformer list, with no option set
TransformerSources == {[BaseSource EXCEPT !.transformers = t] : t \in TransformerLists}

Command(config, sub_command, args) ==
    [config |-> config, sub_command |-> sub_command, args |-> args]

\* The calls of capture_command: without a source, every sub-command and argument
\* list; with a source, every source above under one sub-command and argument list.
Commands ==
    {Command([source |-> None], sc, args) : sc \in SubCommands, args \in ArgLists}
        \cup {Command([source |-> Some(x)], <<"Backup", "Run">>, <<<<"backup">>, <<"run">>>>) :
                 x \in OptionSources \cup TransformerSources}

NoCall == [op |-> "none", events |-> <<>>, cmd |-> None, machine_uid |-> None]

-----------------------------------------------------------------------------
(* Actions *)

Callable == pc = "idle"

Finish(out) ==
    /\ pc' = IF out.panicked THEN "panicked" ELSE "returned"
    /\ http' = out.requests
    /\ result' = out.result
    /\ fault' = out.fault

\* a call of capture(event)
CallCapture ==
    /\ Callable
    /\ \E event \in Events, env \in Envs :
          /\ call' = [NoCall EXCEPT !.op = "capture", !.events = <<event>>]
          /\ Finish(capture(client, event, env))
    /\ queue' = <<>>
    /\ built' = None
    /\ UNCHANGED <<client, serializer>>

\* a call of capture_batch(events): entering the for loop
CallCaptureBatch ==
    /\ Callable
    /\ \E events \in Batches :
          /\ call' = [NoCall EXCEPT !.op = "capture_batch", !.events = events]
          /\ queue' = events
    /\ pc' = "batch"
    /\ http' = <<>>
    /\ result' = Pending
    /\ fault' = None
    /\ built' = None
    /\ UNCHANGED <<client, serializer>>

\* the loop going on after a failed capture
BatchSendContinue ==
    /\ pc = "batch"
    /\ queue # <<>>
    /\ \E env \in Envs :
          LET out == capture(client, Head(queue), env)
          IN  /\ http' = http \o out.requests
              /\ fault' = out.fault
              /\ pc' = IF out.panicked THEN "panicked" ELSE "batch"
              /\ result' = IF out.result.tag = "Err" THEN out.result ELSE result
              /\ queue' = Tail(queue)
    /\ UNCHANGED <<client, serializer, call, built>>

\* one iteration of the loop: self.capture(event)?
BatchSend ==
    /\ pc = "batch"
    /\ queue # <<>>
    /\ \E env \in Envs :
          LET out == capture(client, Head(queue), env)
          IN  /\ http' = http \o out.requests
              /\ fault' = out.fault
              /\ IF out.panicked
                  THEN pc' = "panicked" /\ result' = Pending /\ queue' = Tail(queue)
                  ELSE IF out.result.tag = "Err"
                  THEN pc' = "returned" /\ result' = out.result /\ queue' = Tail(queue)
                  ELSE pc' = "batch" /\ result' = Pending /\ queue' = Tail(queue)
    /\ UNCHANGED <<client, serializer, call, built>>

\* the loop is exhausted: Ok(())
BatchDone ==
    /\ pc = "batch"
    /\ queue = <<>>
    /\ pc' = "returned"
    /\ result' = Ok
    /\ UNCHANGED <<client, serializer, call, queue, http, built, fault>>

\* a call of capture_command(config, sub_command, args, execution_time_in_millis)
CallCaptureCommand ==
    /\ Callable
    /\ \E cmd \in Commands, machine_uid \in MachineUids, now \in Times, env \in Envs :
          \E order \in Perms(IF cmd.config.source = None THEN {}
                              ELSE transformers(cmd.config.source[1])) :
             LET out == capture_command(client, cmd.config, cmd.sub_command, cmd.args,
                                        machine_uid, order, now, env)
             IN  /\ call' = [op |-> "capture_command", events |-> <<>>,
                             cmd |-> Some(cmd), machine_uid |-> out.machine_uid]
                 /\ built' = out.event
                 /\ Finish(out)
    /\ queue' = <<>>
    /\ UNCHANGED <<client, serializer>>

\* The caller takes the Result; the client (&self, never mutated) serves the next call.
Resume ==
    /\ pc = "returned"
    /\ pc' = "idle"
    /\ call' = NoCall
    /\ queue' = <<>>
    /\ http' = <<>>
    /\ result' = Pending
    /\ built' = None
    /\ fault' = None
    /\ UNCHANGED <<client, serializer>>

Init ==
    /\ client \in {TelemetryClient_new(ClientOptions_from(k)) : k \in ApiKeys}
    /\ serializer = "total"
    /\ pc = "idle"
    /\ call = NoCall
    /\ queue = <<>>
    /\ http = <<>>
    /\ result = Pending
    /\ built = None
    /\ fault = None

Next ==
    \/ CallCapture
    \/ CallCaptureBatch
    \/ BatchSend
    \/ BatchDone
    \/ CallCaptureCommand
    \/ Resume

Spec == Init /\ [][Next]_vars

\* serde_json::to_string's Result left open: it may answer Err
InitSer ==
    /\ client \in {TelemetryClient_new(ClientOptions_from(k)) : k \in ApiKeys}
    /\ serializer = "partial"
    /\ pc = "idle"
    /\ call = NoCall
    /\ queue = <<>>
    /\ http = <<>>
    /\ result = Pending
    /\ built = None
    /\ fault = None

SpecSer == InitSer /\ [][Next]_vars

-----------------------------------------------------------------------------
(* Properties *)

\* what the collector reads in the i-th request of the current call
Received(i) == from_str(http[i].body)

Wire(event, api_key) ==
    [api_key |-> api_key, event |-> event.event, properties |-> event.properties,
     timestamp |-> event.timestamp]

\* the i-th request timed out: no response within 3000 ms
TimedOut(i) == http[i].network.connect /\ http[i].network.latency > 3000

\* the collector answered the i-th request (with whatever status) in time: no
\* transport-level failure
Succeeded(i) == http[i].network.connect /\ http[i].network.latency <= 3000

CommandSource == call.cmd[1].config.source

\* C1: capture_batch attempts exactly the prefix of its input, in input order, up
\* to and including the first event whose send fails: every request before the
\* last one succeeded, the i-th request carries the i-th event, the failing
\* event's error is the result and nothing is sent after it; with no failure
\* every event is sent once, in order, and the result is Ok.
C1_BatchPrefix ==
    call.op = "capture_batch" =>
        /\ Len(http) <= Len(call.events)
        /\ \A i \in DOMAIN http :
              /\ Received(i) = Wire(call.events[i], client.options.api_key)
              /\ i < Len(http) => Succeeded(i)
        /\ pc = "batch" =>
              /\ \A i \in DOMAIN http : Succeeded(i)
              /\ queue = SubSeq(call.events, Len(http) + 1, Len(call.events))
        /\ pc = "returned" =>
              IF \E i \in DOMAIN http : ~Succeeded(i)
              THEN /\ ~Succeeded(Len(http))
                   /\ result = Error_new("Other", error_to_string(http[Len(http)].outcome.error))
              ELSE /\ Len(http) = Len(call.events)
                   /\ result = Ok

\* sendBatch [A, B, C] where B fails: A sent once, B's failure returned, C never sent
C1_Witness ==
    /\ call.op = "capture_batch"
    /\ call.events = <<EventA, EventB, EventC>>
    /\ pc = "returned"
    /\ Len(http) = 2
    /\ Succeeded(1)
    /\ ~Succeeded(2)
    /\ result.tag = "Err"

\* C2: a call of capture makes exactly one HTTP request attempt, whether it
\* succeeds, fails at transport level or times out; a timeout or transport
\* failure is returned as an error and the event is not attempted again.
C2_OneAttempt ==
    (call.op = "capture" /\ pc = "returned") =>
        /\ Len(http) = 1
        /\ http[1].url = API_ENDPOINT
        /\ ~Succeeded(1) => result.tag = "Err" /\ result.kind = "Other"

C2_Witness ==
    /\ call.op = "capture"
    /\ pc = "returned"
    /\ Len(http) = 1
    /\ TimedOut(1)
    /\ result = Error_new("Other", <<"operation timed out">>)

\* C3: capture returns Ok for every status the collector answers with and an
\* error only when the request failed at transport level; in capture_batch an
\* event answered with a non-success status does not stop the events after it.
C3_StatusIgnored ==
    /\ (call.op \in {"capture", "capture_command"} /\ pc = "returned" /\ http # <<>>) =>
          (result = Ok <=> Succeeded(1))
    /\ (call.op = "capture_batch" /\ pc = "returned") =>
          /\ result.tag = "Err" => ~Succeeded(Len(http))
          /\ \A i \in DOMAIN http :
                (Succeeded(i) /\ i < Len(call.events)) => Len(http) >= i + 1

C3_Witness ==
    /\ call.op = "capture_batch"
    /\ pc = "returned"
    /\ Len(http) = 2
    /\ Succeeded(1) /\ http[1].network.status = 500
    /\ Succeeded(2)
    /\ result = Ok

SentProps == Received(1).properties.props

TransformerKeys(props) == {k \in DOMAIN props : k[1] = "transformer_"}

\* C5: the transformer_<i> properties of the event sent are in one-to-one
\* correspondence with the distinct tags of the configured columns: the keys are
\* exactly transformer_0 .. transformer_(n-1) and their values are the n
\* distinct tags, whatever the iteration order of the set.
C5_TransformerProps ==
    (call.op = "capture_command" /\ http # <<>> /\ CommandSource # None) =>
        LET tags == UNION {{transformer_tag(col.transformer) :
                              col \in {t.columns[c] : c \in DOMAIN t.columns}} :
                              t \in {CommandSource[1].transformers[i] :
                                        i \in DOMAIN CommandSource[1].transformers}}
            n == Cardinality(tags)
            keys == TransformerKeys(SentProps)
        IN  /\ keys = {<<"transformer_", ToString(i)>> : i \in 0..(n - 1)}
            /\ {SentProps[k] : k \in keys} = tags
            /\ \A k1, k2 \in keys : SentProps[k1] = SentProps[k2] => k1 = k2

\* columns tagged email, email, random: two properties, here random under index 0
C5_Witness ==
    /\ call.op = "capture_command"
    /\ http # <<>>
    /\ CommandSource # None
    /\ Len(CommandSource[1].transformers) = 1
    /\ Len(CommandSource[1].transformers[1].columns) = 3
    /\ [c \in 1..3 |-> CommandSource[1].transformers[1].columns[c].transformer]
          = <<"Email", "Email", "Random">>
    /\ TransformerKeys(SentProps) = {<<"transformer_", "0">>, <<"transformer_", "1">>}
    /\ SentProps[<<"transformer_", "0">>] = <<"random">>
    /\ SentProps[<<"transformer_", "1">>] = <<"email">>

\* the arguments (one atom each) with a single space between two of them
SpaceSeparated(args) ==
    [i \in 1..(IF args = <<>> THEN 0 ELSE 2 * Len(args) - 1) |->
        IF i % 2 = 1 THEN args[(i + 1) \div 2][1] ELSE " "]

\* C6: without a data-source section the property map of the event sent has
\* exactly one key, "args", holding the arguments joined by single spaces.
C6_OnlyArgs ==
    (call.op = "capture_command" /\ CommandSource = None) =>
        /\ http # <<>>
        /\ DOMAIN SentProps = {<<"args">>}
        /\ SentProps[<<"args">>] = SpaceSeparated(call.cmd[1].args)
        /\ built[1].properties.props = SentProps

C6_Witness ==
    /\ call.op = "capture_command"
    /\ CommandSource = None
    /\ call.cmd[1].sub_command = <<"Restore", "Remote">>
    /\ call.cmd[1].args = <<<<"backup">>, <<"run">>>>
    /\ DOMAIN SentProps = {<<"args">>}
    /\ SentProps[<<"args">>] = <<"backup", " ", "run">>

\* C7: the wire form of every event sent carries the event's name, properties
\* (distinct_id and every props entry) and timestamp unchanged, with the api_key
\* the client was constructed with added: reading the body back recovers the event.
C7_RoundTrip ==
    /\ call.op \in {"capture", "capture_batch"} =>
          \A i \in DOMAIN http :
             /\ Received(i).api_key = client.options.api_key
             /\ Received(i).event = call.events[i].event
             /\ Received(i).properties = call.events[i].properties
             /\ Received(i).timestamp = call.events[i].timestamp
    /\ (call.op = "capture_command" /\ http # <<>>) =>
          Received(1) = Wire(built[1], client.options.api_key)

C7_Witness ==
    /\ call.op = "capture"
    /\ Len(http) = 1
    /\ client.options.api_key = <<"k", QUOTE>>
    /\ call.events[1].event = <<QUOTE, "x">>
    /\ call.events[1].timestamp = Some(1)
    /\ DOMAIN call.events[1].properties.props = {<<"k">>, <<QUOTE>>}
    /\ Received(1).properties.props[<<"k">>] = <<"v", BACKSLASH>>
    /\ Received(1).event = <<QUOTE, "x">>

\* C8: with a data source, compression_used is "true" when the compression
\* option is unset or explicitly true, and "false" when it is explicitly false.
C8_CompressionUsed ==
    (call.op = "capture_command" /\ http # <<>> /\ CommandSource # None) =>
        /\ <<"compression_used">> \in DOMAIN SentProps
        /\ CommandSource[1].compression = None =>
              SentProps[<<"compression_used">>] = <<"true">>
        /\ CommandSource[1].compression = Some(TRUE) =>
              SentProps[<<"compression_used">>] = <<"true">>
        /\ CommandSource[1].compression = Some(FALSE) =>
              SentProps[<<"compression_used">>] = <<"false">>

C8_Witness ==
    /\ call.op = "capture_command"
    /\ http # <<>>
    /\ CommandSource # None
    /\ CommandSource[1].compression = None
    /\ SentProps[<<"compression_used">>] = <<"true">>

\* C9: when the machine id lookup fails capture_command still builds and sends
\* exactly one event, with distinct_id "unknown", and fails only if the send
\* does; when the lookup succeeds the distinct_id is the identifier found.
C9_UnknownDistinctId ==
    (call.op = "capture_command" /\ call.machine_uid # None) =>
        /\ Len(http) = 1
        /\ pc = "returned"
        /\ result.tag = "Err" => ~Succeeded(1)
        /\ ~call.machine_uid[1].ok => Received(1).properties.distinct_id = <<"unknown">>
        /\ call.machine_uid[1].ok =>
              Received(1).properties.distinct_id = call.machine_uid[1].id

C9_Witness ==
    /\ call.op = "capture_command"
    /\ call.machine_uid # None
    /\ ~call.machine_uid[1].ok
    /\ Len(http) = 1
    /\ result = Ok
    /\ Received(1).properties.distinct_id = <<"unknown">>

\* C10: when a data source is present and connection_uri() fails, capture_command
\* returns that error and makes no HTTP request; in every other case it makes
\* exactly one.
C10_UriErrorNoRequest ==
    (call.op = "capture_command" /\ pc = "returned") =>
        IF CommandSource # None /\ ~CommandSource[1].connection_uri.ok
        THEN /\ http = <<>>
             /\ built = None
             /\ result = CommandSource[1].connection_uri.error
        ELSE Len(http) = 1

C10_Witness ==
    /\ call.op = "capture_command"
    /\ pc = "returned"
    /\ CommandSource # None
    /\ ~CommandSource[1].connection_uri.ok
    /\ http = <<>>
    /\ result.tag = "Err"

=============================================================================
